---- MODULE Spec2Model ----
(***************************************************************************)
(* GramIQ Farm Finance (src/main.py): a FastAPI service that validates a   *)
(* farm record, composes a PDF report into the reports/ directory, inserts *)
(* one row into the SQLite table `reports`, lists the rows and serves the  *)
(* files by name.                                                          *)
(*                                                                         *)
(* Handlers are plain `def` functions, which FastAPI runs on a thread      *)
(* pool: requests interleave at every access to the file system, the       *)
(* database and the clock.  A request is therefore a small process whose   *)
(* position is its pc; threads have no identity of their own, so the       *)
(* requests in flight are a bag.  The process itself may die and be        *)
(* started again (Restart).  Steps that touch nothing shared are merged into the next    *)
(* one that does.  Text is a sequence of one-character strings, a float is an  *)
(* integer (rounding is not modelled), and a quotient is kept as a         *)
(* fraction [num, den].  Names containing "/" are not modelled.            *)
(***************************************************************************)
EXTENDS Integers, Sequences, FiniteSets, Bags, TLC

VARIABLES
    rows,       \* the table `reports`: a set of rows
    seq,        \* sqlite_sequence for `reports`: the highest id ever given
    files,      \* regular files of directory reports/: name -> content
    logo,       \* whether static/logo.png can be loaded
    now,        \* the wall clock, in seconds
    req,        \* the bag of POST /api/generate handlers in flight
    out,        \* the response sent by the step just taken, if any
    succeeded   \* the success responses of POST /api/generate sent so far

vars == <<rows, seq, files, logo, now, req, out, succeeded>>

----------------------------------------------------------------------------
(* Bounds of the model.                                                    *)

MaxReports == 2     \* rows the table may hold
MaxClock == 1       \* the clock runs over 0 .. MaxClock seconds
MaxItems == 2       \* longest expense / income list of the metrics inputs

Threads == {"t1", "t2"}  \* the pool that runs the handlers

----------------------------------------------------------------------------
(* JSON values of a request body, before validation.                       *)

JNum(n) == [t |-> "num", n |-> n, s |-> <<>>]
JStr(s) == [t |-> "str", n |-> 0, s |-> s]
JAbsent == [t |-> "absent", n |-> 0, s |-> <<>>]

Digits == <<"0", "1", "2", "3", "4", "5", "6", "7", "8", "9">>

IsDigit(ch) == \E i \in 1..Len(Digits) : Digits[i] = ch

DigitValue(ch) == (CHOOSE i \in 1..Len(Digits) : Digits[i] = ch) - 1

RECURSIVE ParseDigits(_, _)
ParseDigits(s, acc) ==
    IF s = <<>> THEN acc
    ELSE ParseDigits(Tail(s), 10 * acc + DigitValue(Head(s)))

(* A `str` field: present and a string.                                    *)
StrOk(j) == j.t = "str"

(* A `float` field: a number, or a string that float() parses.             *)
FloatOk(j) ==
    \/ j.t = "num"
    \/ j.t = "str" /\ j.s # <<>> /\ \A i \in 1..Len(j.s) : IsDigit(j.s[i])

FloatOf(j) == IF j.t = "num" THEN j.n ELSE ParseDigits(j.s, 0)

(* ExpenseItem and IncomeItem have the same fields.                        *)
ItemOkNoCategory(it) ==
    /\ FloatOk(it.amount)
    /\ StrOk(it.date)
    /\ it.description.t \in {"str", "absent"}

ItemOk(it) ==
    /\ StrOk(it.category)
    /\ FloatOk(it.amount)
    /\ StrOk(it.date)
    /\ it.description.t \in {"str", "absent"}

ItemOf(it) ==
    [category |-> it.category.s,
     amount |-> FloatOf(it.amount),
     date |-> it.date.s,
     description |-> IF it.description.t = "str" THEN it.description.s ELSE <<>>]

ItemsOf(its) == [i \in 1..Len(its) |-> ItemOf(its[i])]

(* FarmData: whether the body validates, and the validated record.         *)
BodyOk(b) ==
    /\ StrOk(b.farmer_name)
    /\ StrOk(b.crop_name)
    /\ StrOk(b.season)
    /\ FloatOk(b.total_acres)
    /\ StrOk(b.sowing_date)
    /\ StrOk(b.harvest_date)
    /\ StrOk(b.location)
    /\ FloatOk(b.total_production)
    /\ \A i \in 1..Len(b.expenses) : ItemOk(b.expenses[i])
    /\ \A i \in 1..Len(b.incomes) : ItemOk(b.incomes[i])

FarmData(b) ==
    [farmer_name |-> b.farmer_name.s,
     crop_name |-> b.crop_name.s,
     season |-> b.season.s,
     total_acres |-> FloatOf(b.total_acres),
     sowing_date |-> b.sowing_date.s,
     harvest_date |-> b.harvest_date.s,
     location |-> b.location.s,
     total_production |-> FloatOf(b.total_production),
     expenses |-> ItemsOf(b.expenses),
     incomes |-> ItemsOf(b.incomes)]

----------------------------------------------------------------------------
(* create_and_save_pdf, lines 88-165: everything before doc.build.         *)

(* str.replace(" ", "_")                                                   *)
CleanName(s) == [i \in 1..Len(s) |-> IF s[i] = " " THEN "_" ELSE s[i]]

(* strftime("%Y%m%d_%H%M%S") of a clock that stays within one minute.      *)
Timestamp(t) ==
    <<"20240101_0000", Digits[(t \div 10) + 1], Digits[(t % 10) + 1]>>

Filename(data, t) ==
    CleanName(data.farmer_name) \o <<"_">> \o data.crop_name \o <<"_">>
        \o Timestamp(t) \o <<".pdf">>

(* sum(x.amount for x in items): a left fold from 0.                       *)
RECURSIVE SumFrom(_, _)
SumFrom(items, acc) ==
    IF items = <<>> THEN acc
    ELSE SumFrom(Tail(items), acc + Head(items).amount)

SumAmounts(items) == SumFrom(items, 0)

(* a / b: the quotient, or ZeroDivisionError.                              *)
Quotient(a, b) ==
    IF b = 0 THEN [raised |-> TRUE, num |-> 0, den |-> 1]
    ELSE [raised |-> FALSE, num |-> a, den |-> b]

Zero == [raised |-> FALSE, num |-> 0, den |-> 1]

CostPerAcreUnguarded(total_exp, total_acres) == Quotient(total_exp, total_acres)

CostPerAcre(total_exp, total_acres) ==
    IF total_acres > 0 THEN Quotient(total_exp, total_acres) ELSE Zero

Metrics(data) ==
    LET total_inc == SumAmounts(data.incomes)
        total_exp == SumAmounts(data.expenses)
    IN  [total_inc |-> total_inc,
         total_exp |-> total_exp,
         profit |-> total_inc - total_exp,
         cost_per_acre |-> CostPerAcre(total_exp, data.total_acres)]

(* generate_charts: the two slice sizes drawn.                             *)
ChartSizes(income_total, expense_total) ==
    IF income_total + expense_total = 0 THEN <<1, 1>>
    ELSE <<income_total, expense_total>>

(* One breakdown table: nothing for an empty list, else header and rows.   *)
Breakdown(items) ==
    IF items = <<>> THEN <<>>
    ELSE <<<<"Category", "Date", "Amount">>>>
         \o [i \in 1..Len(items) |->
                <<items[i].category, items[i].date, items[i].amount>>]

(* The flowables handed to doc.build.  with_logo: the logo flowable is in  *)
(* the list.                                                               *)
Elements(data, with_logo) ==
    LET m == Metrics(data)
    IN  [logo |-> with_logo,
         title |-> data.crop_name,
         farmer |-> data.farmer_name,
         location |-> data.location,
         summary |-> m,
         chart |-> ChartSizes(m.total_inc, m.total_exp),
         expenses |-> Breakdown(data.expenses),
         incomes |-> Breakdown(data.incomes)]

----------------------------------------------------------------------------
(* generate_report_endpoint, lines 180-185: the row inserted.              *)

(* json.dumps(data.dict()): the fields in declaration order.               *)
DumpItems(items) ==
    [i \in 1..Len(items) |->
        <<<<"category", items[i].category>>, <<"amount", items[i].amount>>,
          <<"date", items[i].date>>, <<"description", items[i].description>>>>]

JsonDumps(data) ==
    <<<<"farmer_name", data.farmer_name>>, <<"crop_name", data.crop_name>>,
      <<"season", data.season>>, <<"total_acres", data.total_acres>>,
      <<"sowing_date", data.sowing_date>>, <<"harvest_date", data.harvest_date>>,
      <<"location", data.location>>,
      <<"total_production", data.total_production>>,
      <<"expenses", DumpItems(data.expenses)>>,
      <<"incomes", DumpItems(data.incomes)>>>>

(* strftime("%Y-%m-%d %H:%M"): the minute of the clock.                    *)
CreatedAt(t) == <<"2024-01-01 00:", Digits[((t \div 60) \div 10) + 1],
                  Digits[((t \div 60) % 10) + 1]>>

NewRowPath(id, data, filename, t) ==
    [id |-> id,
     farmer_name |-> data.farmer_name,
     crop_name |-> data.crop_name,
     filename |-> <<"reports/">> \o filename,
     json_data |-> JsonDumps(data),
     created_at |-> CreatedAt(t)]

NewRow(id, data, filename, t) ==
    [id |-> id,
     farmer_name |-> data.farmer_name,
     crop_name |-> data.crop_name,
     filename |-> filename,
     json_data |-> JsonDumps(data),
     created_at |-> CreatedAt(t)]

(* SELECT * FROM reports ORDER BY id DESC.                                 *)
RECURSIVE OrderByIdAsc(_)
OrderByIdAsc(table) ==
    IF table = {} THEN <<>>
    ELSE LET lo == CHOOSE r \in table : \A x \in table : x.id >= r.id
         IN  <<lo>> \o OrderByIdAsc(table \ {lo})

RECURSIVE OrderByIdDesc(_)
OrderByIdDesc(table) ==
    IF table = {} THEN <<>>
    ELSE LET hi == CHOOSE r \in table : \A x \in table : x.id <= r.id
         IN  <<hi>> \o OrderByIdDesc(table \ {hi})

----------------------------------------------------------------------------
(* Request bodies the clients send.                                        *)

Item(category, amount) ==
    [category |-> category, amount |-> amount, date |-> JStr(<<"d">>),
     description |-> JAbsent]

Body(farmer, crop, acres, expenses, incomes) ==
    [farmer_name |-> farmer, crop_name |-> crop, season |-> JStr(<<"s">>),
     total_acres |-> acres, sowing_date |-> JStr(<<"d">>),
     harvest_date |-> JStr(<<"d">>), location |-> JStr(<<"n">>),
     total_production |-> JNum(4), expenses |-> expenses, incomes |-> incomes]

Ravi == JStr(<<"a", " ", "b">>)
Ravi2 == JStr(<<"a", "_", "b">>)
Wheat == JStr(<<"w">>)
Seeds == JStr(<<"e">>)
Sale == JStr(<<"i">>)

(* Two records whose farmer names differ only in " " against "_", one with *)
(* an amount sent as a numeric string, one with no items and no acres.     *)
ValidBodies ==
    {Body(Ravi, Wheat, JNum(2), <<Item(Seeds, JNum(2))>>,
          <<Item(Sale, JStr(<<"1", "5">>))>>),
     Body(Ravi2, Wheat, JNum(0), <<>>, <<>>)}

InvalidBodies ==
    {Body(Ravi, Wheat, JNum(2), <<Item(Seeds, JStr(<<"a">>))>>, <<>>),
     Body(Ravi, Wheat, JStr(<<"a">>), <<>>, <<>>),
     Body(Ravi, JAbsent, JNum(2), <<>>, <<>>),
     Body(Ravi, Wheat, JNum(2), <<>>, <<Item(JAbsent, JNum(1))>>)}

Bodies == ValidBodies \cup InvalidBodies

(* Inputs of the metrics: every acreage and every pair of amount lists.    *)
Amounts == {0, 2}
Acreages == {-1, 0, 1, 2}

AmountLists(category) ==
    UNION {[1..n -> {Item(category, JNum(a)) : a \in Amounts}] : n \in 0..MaxItems}

MetricBodies ==
    {Body(Ravi, Wheat, JNum(ac), e, i) :
        ac \in Acreages, e \in AmountLists(Seeds), i \in AmountLists(Sale)}

(* What validation makes of each body the clients send: a function of the  *)
(* body alone.                                                             *)
Accepted == {b \in Bodies \cup MetricBodies : BodyOk(b)}

----------------------------------------------------------------------------
(* State.                                                                  *)

(* The handlers in flight, one of them started, one of them ended.         *)
InFlight == BagToSet(req)

Started(h) == req (+) SetToBag({h})

Ended(h) == req (-) SetToBag({h})

(* Responses.  body: the body answered, kept for a rejected one; filename: *)
(* the one in the response; computed: the one line 90 computed, if any.    *)
NoOut ==
    [route |-> "", status |-> 0, kind |-> "", body |-> <<>>,
     filename |-> <<>>, computed |-> <<>>, result |-> <<>>]

Success(filename) ==
    [NoOut EXCEPT !.route = "generate", !.status = 200, !.kind = "success",
                  !.filename = filename, !.computed = filename]

Unprocessable(b) ==
    [NoOut EXCEPT !.route = "generate", !.status = 422,
                  !.kind = "ValidationError", !.body = b]

(* An exception that leaves the handler: 500.                              *)
ServerError(why, computed) ==
    [NoOut EXCEPT !.route = "generate", !.status = 500, !.kind = why,
                  !.computed = computed]

(* A file being written holds a truncated document until the write ends.   *)
Partial == [complete |-> FALSE, doc |-> <<>>]
Complete(elements) == [complete |-> TRUE, doc |-> elements]

PutFixed(fs, name, content) ==
    [n \in DOMAIN fs \cup {<<"report", ".pdf">>} |->
        IF n = <<"report", ".pdf">> THEN content ELSE fs[n]]

(* open(os.path.join("reports", name), "wb") and what is written to it.    *)
Put(fs, name, content) ==
    [n \in DOMAIN fs \cup {name} |-> IF n = name THEN content ELSE fs[n]]

(* os.makedirs("reports", exist_ok=True): the files there are kept.        *)
MakedirsWiping(fs) == << >>

Makedirs(fs) == fs

(* init_db: CREATE TABLE IF NOT EXISTS keeps the rows of an existing table.*)
InitDbDropping(table) == {}

InitDb(table) == table

Init ==
    /\ rows = InitDb({})
    /\ seq = 0
    /\ files = Makedirs(<< >>)
    /\ logo \in BOOLEAN
    /\ now = 0
    /\ req = EmptyBag
    /\ out = NoOut
    /\ succeeded = {}

----------------------------------------------------------------------------
(* POST /api/generate.                                                     *)

(* A valid record is taken while a thread is free.  Rows are capped at     *)
(* MaxReports: it is taken only while every request in flight can still    *)
(* insert its row.                                                         *)
Room ==
    /\ BagCardinality(req) < Cardinality(Threads)
    /\ seq + BagCardinality(req) < MaxReports

(* Lines 97-103.  RLImage("static/logo.png", width, height) keeps the path *)
(* and opens nothing: reportlab's Image is lazy (lazy=1) for every path    *)
(* but a JPEG's, and reads the file when it is first measured, which is    *)
(* during doc.build.  So the constructor returns, the flowable is appended *)
(* whether or not the logo can be loaded, and the except clause of line    *)
(* 102 has nothing to catch.                                               *)
LogoAppended == TRUE

(* FarmData validation fails: FastAPI answers 422 and the handler does not *)
(* run.  A request that never gets as far as opening its file holds        *)
(* nothing between steps, so it takes no client's place.                   *)
Reject(b) ==
    /\ b \notin Accepted
    /\ out' = Unprocessable(b)
    /\ UNCHANGED <<rows, seq, files, logo, now, req, succeeded>>

(* Lines 88-166, up to the point where doc.build opens the file: the       *)
(* filename from the clock, the flowables with the metrics, the layout,    *)
(* which reads the logo and raises if it cannot, and the file created or   *)
(* truncated for writing.                                                  *)
Open(b) ==
    /\ b \in Accepted
    /\ Room
    /\ LET data == FarmData(b)
           filename == Filename(data, now)
       IN  IF Metrics(data).cost_per_acre.raised
           THEN /\ out' = ServerError("ZeroDivisionError", filename)
                /\ UNCHANGED <<req, files>>
           ELSE IF LogoAppended /\ ~logo
           THEN /\ out' = ServerError("logo", filename)
                /\ UNCHANGED <<req, files>>
           ELSE /\ req' = Started([pc |-> "write", data |-> data,
                                   filename |-> filename,
                                   elements |-> Elements(data, LogoAppended)])
                /\ files' = Put(files, filename, Partial)
                /\ out' = NoOut
    /\ UNCHANGED <<rows, seq, logo, now, succeeded>>

(* generate_charts (line 138) or the layout (line 166) raises: no file has *)
(* been opened yet.                                                        *)
ComposeFails(b) ==
    /\ b \in Accepted
    /\ \E why \in {"chart", "layout"} :
           out' = ServerError(why, Filename(FarmData(b), now))
    /\ UNCHANGED <<rows, seq, files, logo, now, req, succeeded>>

(* The document is written and the file closed; line 167 returns.          *)
Write(h) ==
    /\ h \in InFlight
    /\ h.pc = "write"
    /\ files' = Put(files, h.filename, Complete(h.elements))
    /\ req' = Ended(h) (+) SetToBag({[h EXCEPT !.pc = "insert"]})
    /\ out' = NoOut
    /\ UNCHANGED <<rows, seq, logo, now, succeeded>>

(* The write raises (disk full, I/O error): nothing removes the file.      *)
WriteFails(h) ==
    /\ h \in InFlight
    /\ h.pc = "write"
    /\ req' = Ended(h)
    /\ out' = ServerError("write", h.filename)
    /\ UNCHANGED <<rows, seq, files, logo, now, succeeded>>

(* Lines 180-189: INSERT and commit, one transaction, and the response.    *)
Insert(h) ==
    /\ h \in InFlight
    /\ h.pc = "insert"
    /\ rows' = rows \cup {NewRow(seq + 1, h.data, h.filename, now)}
    /\ seq' = seq + 1
    /\ req' = Ended(h)
    /\ out' = Success(h.filename)
    /\ succeeded' = succeeded \cup {[filename |-> h.filename, data |-> h.data]}
    /\ UNCHANGED <<files, logo, now>>

(* The insert raises (database locked, disk full): nothing is committed.   *)
InsertFails(h) ==
    /\ h \in InFlight
    /\ h.pc = "insert"
    /\ req' = Ended(h)
    /\ out' = ServerError("insert", h.filename)
    /\ UNCHANGED <<rows, seq, files, logo, now, succeeded>>

----------------------------------------------------------------------------
(* The other routes.                                                       *)

(* GET /: renders the landing page.                                        *)
Home ==
    /\ out' = [NoOut EXCEPT !.route = "home", !.status = 200]
    /\ UNCHANGED <<rows, seq, files, logo, now, req, succeeded>>

(* GET /api/reports.                                                       *)
GetReportsAsc(table) == OrderByIdAsc(table)

GetReports(table) == OrderByIdDesc(table)

ListReports ==
    /\ out' = [NoOut EXCEPT !.route = "reports", !.status = 200,
                            !.result = GetReports(rows)]
    /\ UNCHANGED <<rows, seq, files, logo, now, req, succeeded>>

(* os.path.exists(os.path.join("reports", filename)): true of a regular    *)
(* file of the directory and of the directory entries "." and "..".        *)
DirectoryEntries == {<<".">>, <<".", ".">>}

PathExists(filename) ==
    filename \in DOMAIN files \/ filename \in DirectoryEntries

(* GET /reports/{filename}.                                                *)
download_report(filename) ==
    IF PathExists(filename)
    THEN [NoOut EXCEPT !.route = "download", !.status = 200,
                       !.kind = "application/pdf", !.filename = filename]
    ELSE [NoOut EXCEPT !.route = "download", !.status = 404,
                       !.kind = "File not found", !.filename = filename]

RequestedNames ==
    {Filename(FarmData(b), t) : b \in ValidBodies, t \in 0..MaxClock}
        \cup {<<".">>, <<"x", ".pdf">>}

Download(filename) ==
    /\ out' = download_report(filename)
    /\ UNCHANGED <<rows, seq, files, logo, now, req, succeeded>>

----------------------------------------------------------------------------
(* The environment.                                                        *)

Tick ==
    /\ now < MaxClock
    /\ now' = now + 1
    /\ out' = NoOut
    /\ UNCHANGED <<rows, seq, files, logo, req, succeeded>>

(* The process dies at any point and is started again: the requests in     *)
(* flight are lost, and lines 22 and 42 run on what is on disk.            *)
Restart ==
    /\ req' = EmptyBag
    /\ files' = Makedirs(files)
    /\ rows' = InitDb(rows)
    /\ out' = NoOut
    /\ UNCHANGED <<seq, logo, now, succeeded>>

Next ==
    \/ \E b \in Bodies : Reject(b)
    \/ \E b \in Bodies : Open(b)
    \/ \E b \in Bodies : ComposeFails(b)
    \/ \E h \in InFlight : Write(h)
    \/ \E h \in InFlight : WriteFails(h)
    \/ \E h \in InFlight : Insert(h)
    \/ \E h \in InFlight : InsertFails(h)
    \/ Home
    \/ ListReports
    \/ \E filename \in RequestedNames : Download(filename)
    \/ Tick
    \/ Restart

Spec == Init /\ [][Next]_vars

(* The metrics on their own: one request at a time, every input of        *)
(* MetricBodies.                                                           *)
MetricsNext ==
    \/ req = EmptyBag /\ \E b \in MetricBodies : Open(b)
    \/ Restart

MetricsSpec == Init /\ [][MetricsNext]_vars

----------------------------------------------------------------------------
(* Properties.                                                             *)

C2_RejectedBeforeSideEffects ==
    /\ [](/\ out.status = 422 => out.body \in InvalidBodies
          /\ \A h \in InFlight : \E b \in ValidBodies : h.data = FarmData(b))
    /\ [][out'.status = 422 =>
            rows' = rows /\ seq' = seq /\ files' = files /\ req' = req]_vars

(* C2's case: a record with a non-numeric amount is rejected while the     *)
(* table and the archive hold something.                                   *)
C2_Witness ==
    /\ out.status = 422
    /\ \E i \in 1..Len(out.body.expenses) :
          out.body.expenses[i].amount = JStr(<<"a">>)
    /\ rows # {}
    /\ DOMAIN files # {}

(* C3: the table is append-only.  A step keeps every row; it adds a row    *)
(* only as a successful POST, exactly one, with an id above every id       *)
(* there; a step that inserts nothing, whatever the operation, leaves the  *)
(* table as it was, and two listings in a row are the same.                *)
C3_AppendOnly ==
    [][/\ rows \subseteq rows'
       /\ rows' # rows =>
             /\ out'.route = "generate" /\ out'.status = 200
             /\ \E r \in rows' : /\ rows' = rows \cup {r}
                                 /\ r \notin rows
                                 /\ \A x \in rows : r.id > x.id
       /\ (out'.route = "generate" /\ out'.status = 200) =>
             Cardinality(rows') = Cardinality(rows) + 1
       /\ seq' = seq => rows' = rows
       /\ (out.route = "reports" /\ out'.route = "reports") =>
             out'.result = out.result]_vars

(* C3's case: two submissions have each inserted a row, and the two rows   *)
(* are listed.                                                             *)
C3_Witness ==
    /\ Cardinality(rows) = 2
    /\ out.route = "reports"
    /\ Len(out.result) = 2

(* C4: a listing holds every row, in strictly descending id order, so of   *)
(* two rows the one inserted later (the higher id) comes first.            *)
C4_NewestFirst ==
    out.route = "reports" =>
        /\ Len(out.result) = Cardinality(rows)
        /\ \A i \in 1..Len(out.result) : out.result[i] \in rows
        /\ \A i, j \in 1..Len(out.result) :
              i < j => out.result[i].id > out.result[j].id
        /\ \A a, b \in rows :
              a.id < b.id =>
                  \E i, j \in 1..Len(out.result) :
                      i < j /\ out.result[i] = b /\ out.result[j] = a

C4_Witness ==
    /\ out.route = "reports"
    /\ Len(out.result) = 2
    /\ out.result[1].farmer_name # out.result[2].farmer_name

C6_FailureLeavesNoPartialFile ==
    [][/\ (out'.route = "generate" /\ out'.kind \in {"chart", "layout"}) =>
             out'.status = 500 /\ rows' = rows /\ files' = files
       /\ (out'.route = "generate" /\ out'.kind = "write") =>
             /\ out'.status = 500
             /\ rows' = rows
             /\ ~(/\ out'.computed \in DOMAIN files'
                  /\ ~files'[out'.computed].complete)]_vars

C8_NotFoundUnlessFile ==
    out.route = "download" =>
        IF out.filename \in DOMAIN files
        THEN out.status = 200 /\ out.kind = "application/pdf"
        ELSE out.status = 404 /\ out.kind = "File not found"

(* C9: the metrics of a composed report are the reference ones: the two    *)
(* sums, their difference, and expense over acres when acres > 0, else 0;  *)
(* no record makes the division fail, and a record without items has all   *)
(* three totals 0.                                                         *)
RECURSIVE RefSum(_)
RefSum(items) ==
    IF Len(items) = 0 THEN 0
    ELSE RefSum(SubSeq(items, 1, Len(items) - 1)) + items[Len(items)].amount

C9_Metrics ==
    /\ out.kind # "ZeroDivisionError"
    /\ \A h \in InFlight :
              LET d == h.data
                  m == h.elements.summary
              IN  /\ m.total_inc = RefSum(d.incomes)
                  /\ m.total_exp = RefSum(d.expenses)
                  /\ m.profit = RefSum(d.incomes) - RefSum(d.expenses)
                  /\ ~m.cost_per_acre.raised
                  /\ IF d.total_acres > 0
                     THEN m.cost_per_acre.num * d.total_acres
                              = RefSum(d.expenses) * m.cost_per_acre.den
                     ELSE m.cost_per_acre.num = 0
                  /\ (d.expenses = <<>> /\ d.incomes = <<>>) =>
                        m.total_inc = 0 /\ m.total_exp = 0 /\ m.profit = 0

(* C9's case: a report composed for no acres and a positive expense total. *)
C9_Witness ==
    \E h \in InFlight :
        /\ h.data.total_acres = 0
        /\ h.elements.summary.total_exp > 0
        /\ Len(h.data.expenses) = MaxItems

(* C10: a logo that cannot be loaded never makes POST /api/generate fail.  *)
C10_LogoNeverAborts == ~(out.route = "generate" /\ out.kind = "logo")

====
